---------------------------- MODULE Spec2Model ----------------------------
(***************************************************************************)
(* A model of ESR-R-TESTPROGRAM1.py: the ComponentTest object, its         *)
(* start-up (init_hardware, run_all_tests), its main loop (check_button,   *)
(* update_display, rainbow_demo) and the shutdown sequence of __main__.    *)
(*                                                                         *)
(* The drivers (machine, neopixel, dht, ssd1306, sdcard, uos) are the      *)
(* environment: every driver call may raise.  The calls one step of the    *)
(* program makes are numbered 1, 2, ... in the order they are issued, and  *)
(* the step draws the set F of call numbers that raise.  Time is the       *)
(* millisecond clock of time.ticks_ms(); a sleep advances it by its        *)
(* argument and every other statement takes no time.  Temperature and      *)
(* humidity are kept in tenths (215 is 21.5).                              *)
(***************************************************************************)
EXTENDS Integers, Sequences, FiniteSets, TLC

\* ---- program constants (src lines 42-44 and the literals of the loop) ----
NUM_PIXELS == 10
TOTAL_PAGES == 4
DEBOUNCE_DELAY == 200
DISPLAY_INTERVAL == 500
RAINBOW_INTERVAL == 150
LOOP_SLEEP == 50
ERROR_SLEEP == 1000
HUE_STEP == 15
PIXEL_HUE == 36
RAINBOW_VALUE == 100
FULL_SCALE == 65535
TONE_DUTY == 32768

\* ---- bounds of the model ----
\* driver calls that may raise in one behaviour
MaxFaults == 1
\* iterations of the main loop
MaxIter == 6

\* ---- values the environment delivers ----
LdrVals == {32767}
TrimmerVals == {65535}
Temps == {215}
Hums == {487}
WRITTEN == "Pico2 W Test"
Contents == {WRITTEN, "Pico2 W", "garbage"}
TEST_FILE == "/sd/test.txt"

Peripherals ==
  {"oled", "ws2812b", "sd", "dht22", "button", "buzzer", "ldr", "trimmer", "rgb_led"}

\* the test_results key that holds a peripheral's status
FlagOf ==
  [oled |-> "oled_ok", ws2812b |-> "ws2812b_ok", sd |-> "sd_ok",
   dht22 |-> "dht22_ok", button |-> "button_ok", buzzer |-> "buzzer_ok",
   ldr |-> "ldr_ok", trimmer |-> "trimmer_ok", rgb_led |-> "rgb_led_ok"]

Black == <<0, 0, 0>>
AllOff == [i \in 0..(NUM_PIXELS - 1) |-> Black]
Channels == {"led_r", "led_g", "led_b"}

VARIABLES
  test_results,         \* self.test_results: nine status flags, four measurements
  current_page,         \* self.current_page
  last_button_time,     \* self.last_button_time
  last_display_update,  \* self.last_display_update
  last_rainbow_update,  \* self.last_rainbow_update
  color_index,          \* self.color_index
  attrs,                \* the driver handles that exist as attributes of self
  buzzer_duty,          \* duty of the buzzer PWM
  led_duty,             \* duty of the three RGB PWM channels
  pixels,               \* the NeoPixel buffer
  strip,                \* what the LED strip shows (the buffer at the last write)
  files,                \* the files of the card, each a path and a content
  now,                  \* time.ticks_ms()
  pc,                   \* the statement the program is at
  constructed,          \* component_test is bound (ComponentTest() has returned)
  interrupted,          \* a KeyboardInterrupt has been delivered
  ops,                  \* the driver calls of the last step, in order
  faults,               \* driver calls that have raised so far
  iter,                 \* main loop iterations started
  init_attempts,        \* per peripheral, the initialisation sequences started
  init_done,            \* the peripherals whose initialisation sequence raised nothing
  test_calls,           \* per test method, the calls run_all_tests has made
  last_advance,         \* sample time of the last page advance, -1 before the first
  current_time,         \* the clock as check_button last sampled it (418)
  held_low,             \* every button.value() so far returned 0 (421)
  fn_args,              \* the arguments of a call of a pure function, or <<>>
  fn_result             \* what that call returned, <<>> before it returns

vars ==
  <<test_results, current_page, last_button_time, last_display_update,
    last_rainbow_update, color_index, attrs, buzzer_duty, led_duty, pixels,
    strip, files, now, pc, constructed, interrupted, ops, faults, iter,
    init_attempts, init_done, test_calls, last_advance, current_time,
    held_low, fn_args, fn_result>>

\* ------------------------------------------------------------------------
\* One step of the program is computed on a record m of everything the
\* methods read and write; m.exc says an exception is propagating, and every
\* statement below is skipped while it is.
\* ------------------------------------------------------------------------
NoInput ==
  [button |-> 1, ldr |-> 0, trimmer |-> 0, temp |-> 0, hum |-> 0, content |-> WRITTEN]

Start(F, inp) ==
  [tr |-> test_results, page |-> current_page, lbt |-> last_button_time,
   ldu |-> last_display_update, lru |-> last_rainbow_update, ci |-> color_index,
   attrs |-> attrs, bz |-> buzzer_duty, led |-> led_duty, px |-> pixels,
   strip |-> strip, files |-> files, now |-> now, att |-> init_attempts,
   done |-> init_done, adv |-> last_advance, ct |-> current_time,
   held |-> held_low,
   ops |-> <<>>, exc |-> FALSE, F |-> F, inp |-> inp]

Raised(m) == {i \in 1..Len(m.ops) : ~m.ops[i].ok}

\* the sets of at most `budget` call numbers among 1..n
FaultSets(n, budget) ==
  {F \in SUBSET (1..n) : Cardinality(F) <= budget}

Faulty(m) == (Len(m.ops) + 1) \in m.F

\* the record of one driver call: the peripheral, the handle, the method, its
\* arguments, what it returned (<<v>>, or <<>> for nothing), whether the
\* peripheral's status flag was set when it was issued, and whether it returned
Entry(m, p, obj, op, arg, ret) ==
  [dev |-> p, obj |-> obj, op |-> op, arg |-> arg, ret |-> ret,
   avail |-> m.tr[FlagOf[p]], ok |-> ~Faulty(m)]

Raise(m) == [m EXCEPT !.exc = TRUE]
Catch(m) == [m EXCEPT !.exc = FALSE]

\* a constructor of a driver object: on success the handle becomes an attribute
Construct(m, p, obj, op) ==
  IF m.exc THEN m
  ELSE IF Faulty(m)
       THEN [m EXCEPT !.ops = Append(@, Entry(m, p, obj, op, <<>>, <<>>)), !.exc = TRUE]
       ELSE [m EXCEPT !.ops = Append(@, Entry(m, p, obj, op, <<>>, <<>>)),
                      !.attrs = @ \cup {obj}]

\* a method call on a driver handle; a missing attribute is an AttributeError
Call(m, p, obj, op, arg) ==
  IF m.exc THEN m
  ELSE IF obj \notin m.attrs THEN Raise(m)
  ELSE [m EXCEPT !.ops = Append(@, Entry(m, p, obj, op, arg, <<>>)), !.exc = Faulty(m)]

\* a method call that returns val
Read(m, p, obj, op, val) ==
  IF m.exc THEN m
  ELSE IF obj \notin m.attrs THEN Raise(m)
  ELSE [m EXCEPT !.ops = Append(@, Entry(m, p, obj, op, <<>>,
                                         IF Faulty(m) THEN <<>> ELSE <<val>>)),
                 !.exc = Faulty(m)]

SetFlag(m, key, val) == IF m.exc THEN m ELSE [m EXCEPT !.tr[key] = val]

Sleep(m, ms) == IF m.exc THEN m ELSE [m EXCEPT !.now = @ + ms]

Attempt(m, p) == IF m.exc THEN m ELSE [m EXCEPT !.att[p] = @ + 1]

InitDone(m, p) == IF m.exc THEN m ELSE [m EXCEPT !.done = @ \cup {p}]

\* ---- driver calls with an effect on the hardware ----
OledText(m, s, x, y) == Call(m, "oled", "oled", "text", <<s, x, y>>)

OledFill(m) == Call(m, "oled", "oled", "fill", <<0>>)

OledShow(m) == Call(m, "oled", "oled", "show", <<>>)

StripFill(m, c) ==
  LET r == Call(m, "ws2812b", "ws2812b", "fill", c)
  IN IF r.exc THEN r ELSE [r EXCEPT !.px = [i \in 0..(NUM_PIXELS - 1) |-> c]]

StripSet(m, i, c) ==
  LET r == Call(m, "ws2812b", "ws2812b", "setitem", <<i, c>>)
  IN IF r.exc THEN r ELSE [r EXCEPT !.px[i] = c]

StripWrite(m) ==
  LET r == Call(m, "ws2812b", "ws2812b", "write", <<>>)
  IN IF r.exc THEN r ELSE [r EXCEPT !.strip = r.px]

BuzzerFreq(m, hz) == Call(m, "buzzer", "buzzer", "freq", <<hz>>)

BuzzerDuty(m, d) ==
  LET r == Call(m, "buzzer", "buzzer", "duty_u16", <<d>>)
  IN IF r.exc THEN r ELSE [r EXCEPT !.bz = d]

LedFreq(m, ch, hz) == Call(m, "rgb_led", ch, "freq", <<hz>>)

LedDuty(m, ch, d) ==
  LET r == Call(m, "rgb_led", ch, "duty_u16", <<d>>)
  IN IF r.exc THEN r ELSE [r EXCEPT !.led[ch] = d]

\* int((c * 65535) / 255)
Scale(c) == (c * FULL_SCALE) \div 255

\* set_rgb_color (602-616)
set_rgb_color(m, r, g, b) ==
  IF m.exc \/ ~m.tr.rgb_led_ok THEN m
  ELSE LedDuty(LedDuty(LedDuty(m, "led_r", Scale(r)), "led_g", Scale(g)),
               "led_b", Scale(b))

\* play_tone (618-636): a bare except swallows whatever the driver raises
play_tone(m, frequency, duration) ==
  IF m.exc \/ ~m.tr.buzzer_ok THEN m
  ELSE Catch(BuzzerDuty(Sleep(BuzzerDuty(BuzzerFreq(m, frequency), TONE_DUTY),
                              duration), 0))

\* ---- init_hardware (90-235): eight blocks, each in its own try ----
init_oled(m) ==
  LET m1 == Construct(Attempt(m, "oled"), "oled", "i2c", "I2C")
      m2 == Construct(m1, "oled", "oled", "SSD1306_I2C")
      m3 == SetFlag(m2, "oled_ok", TRUE)
      m4 == OledText(OledText(OledFill(m3), "Pico2 W Test", 0, 0),
                     "Initializing...", 0, 10)
  IN Catch(InitDone(OledShow(m4), "oled"))

init_ws2812b(m) ==
  LET m1 == Construct(Attempt(m, "ws2812b"), "ws2812b", "ws2812b", "NeoPixel")
      m2 == StripWrite(StripFill(m1, Black))
  IN Catch(InitDone(SetFlag(m2, "ws2812b_ok", TRUE), "ws2812b"))

init_dht22(m) ==
  LET m1 == Construct(Attempt(m, "dht22"), "dht22", "dht22", "DHT22")
  IN Catch(InitDone(SetFlag(m1, "dht22_ok", TRUE), "dht22"))

init_button(m) ==
  Catch(InitDone(Construct(Attempt(m, "button"), "button", "button", "Pin"), "button"))

init_buzzer(m) ==
  LET m1 == Construct(Attempt(m, "buzzer"), "buzzer", "buzzer", "PWM")
      m2 == BuzzerDuty(BuzzerFreq(m1, 1000), 0)
  IN Catch(InitDone(SetFlag(m2, "buzzer_ok", TRUE), "buzzer"))

init_rgb_led(m) ==
  LET m1 == Construct(Attempt(m, "rgb_led"), "rgb_led", "led_r", "PWM")
      m2 == Construct(m1, "rgb_led", "led_g", "PWM")
      m3 == Construct(m2, "rgb_led", "led_b", "PWM")
      m4 == LedFreq(LedFreq(LedFreq(m3, "led_r", 1000), "led_g", 1000), "led_b", 1000)
      m5 == set_rgb_color(m4, 0, 0, 0)
  IN Catch(InitDone(SetFlag(m5, "rgb_led_ok", TRUE), "rgb_led"))

init_adc(m) ==
  LET m1 == InitDone(Construct(Attempt(m, "ldr"), "ldr", "ldr", "ADC"), "ldr")
      m2 == InitDone(Construct(Attempt(m1, "trimmer"), "trimmer", "trimmer", "ADC"),
                     "trimmer")
  IN Catch(SetFlag(SetFlag(m2, "ldr_ok", TRUE), "trimmer_ok", TRUE))

init_sd(m) ==
  LET m1 == Construct(Attempt(m, "sd"), "sd", "spi", "SPI")
      m2 == Construct(m1, "sd", "cs", "Pin")
      m3 == Construct(m2, "sd", "sd", "SDCard")
      m4 == Call(m3, "sd", "sd", "mount", <<"/sd">>)
  IN Catch(InitDone(SetFlag(m4, "sd_ok", TRUE), "sd"))


\* ---- the functional tests (261-410) ----
SETTLE == 2000

\* a driver read whose result is stored under test_results[key]
ReadInto(m, p, op, key, val) ==
  LET r == Read(m, p, p, op, val)
  IN IF r.exc THEN r ELSE [r EXCEPT !.tr[key] = val]

test_dht22(m) ==
  IF m.exc \/ ~m.tr.dht22_ok THEN m
  ELSE LET m1 == Call(Sleep(m, SETTLE), "dht22", "dht22", "measure", <<>>)
           m2 == ReadInto(m1, "dht22", "temperature", "temperature", m.inp.temp)
           m3 == ReadInto(m2, "dht22", "humidity", "humidity", m.inp.hum)
       IN IF m3.exc THEN SetFlag(Catch(m3), "dht22_ok", FALSE) ELSE m3

test_ldr(m) ==
  IF m.exc \/ ~m.tr.ldr_ok THEN m
  ELSE LET m1 == ReadInto(m, "ldr", "read_u16", "ldr_value", m.inp.ldr)
       IN IF m1.exc THEN SetFlag(Catch(m1), "ldr_ok", FALSE) ELSE m1

test_trimmer(m) ==
  IF m.exc \/ ~m.tr.trimmer_ok THEN m
  ELSE LET m1 == ReadInto(m, "trimmer", "read_u16", "trimmer_value", m.inp.trimmer)
       IN IF m1.exc THEN SetFlag(Catch(m1), "trimmer_ok", FALSE) ELSE m1

test_buzzer(m) ==
  IF m.exc \/ ~m.tr.buzzer_ok THEN m
  ELSE LET m1 == Sleep(play_tone(m, 1500, 200), 100)
           m2 == Sleep(play_tone(m1, 2000, 200), 100)
       IN IF m2.exc THEN SetFlag(Catch(m2), "buzzer_ok", FALSE) ELSE m2

TestColors == <<<<255, 0, 0>>, <<0, 255, 0>>, <<0, 0, 255>>, <<255, 255, 255>>>>

RECURSIVE ShowColors(_, _)
\* the for loop of test_rgb_led, from colour number i on
ShowColors(m, i) ==
  IF i > Len(TestColors) THEN m
  ELSE LET c == TestColors[i]
       IN ShowColors(Sleep(set_rgb_color(m, c[1], c[2], c[3]), 300), i + 1)

test_rgb_led(m) ==
  IF m.exc \/ ~m.tr.rgb_led_ok THEN m
  ELSE LET m1 == set_rgb_color(ShowColors(m, 1), 0, 0, 0)
       IN IF m1.exc THEN SetFlag(Catch(m1), "rgb_led_ok", FALSE) ELSE m1

\* the contents in which 'Pico2 W' occurs
Marked == {WRITTEN, "Pico2 W"}

File(content) == [path |-> TEST_FILE, content |-> content]

Exists(fs, path) == \E f \in fs : f.path = path

FileOp(m, op) == Call(m, "sd", "sd", op, <<TEST_FILE>>)

\* what f.read() delivers: the file, or what a bad transfer makes of it
ReadBack(m) ==
  IF m.inp.content = WRITTEN
  THEN (CHOOSE f \in m.files : f.path = TEST_FILE).content
  ELSE m.inp.content

test_sd_card(m) ==
  IF m.exc \/ ~m.tr.sd_ok THEN m
  ELSE LET o1 == FileOp(m, "open_w")
           m1 == IF o1.exc THEN o1 ELSE [o1 EXCEPT !.files = {File("")}]
           w1 == FileOp(m1, "write")
           m2 == IF w1.exc THEN w1 ELSE [w1 EXCEPT !.files = {File(WRITTEN)}]
           o2 == FileOp(m2, "open_r")
           m3 == Read(o2, "sd", "sd", "read", IF o2.exc THEN "" ELSE ReadBack(o2))
           m4 == IF m3.exc \/ ReadBack(m3) \in Marked
                 THEN m3 ELSE SetFlag(m3, "sd_ok", FALSE)
           r1 == FileOp(m4, "remove")
           m5 == IF r1.exc THEN r1 ELSE [r1 EXCEPT !.files = {}]
       IN IF m5.exc THEN SetFlag(Catch(m5), "sd_ok", FALSE) ELSE m5

\* ---- check_button (412-447) ----
\* A cursor that counts on without wrapping.
NextPage_NoWrap(p) == p + 1

NextPage(p) == (p + 1) % TOTAL_PAGES

ticks_diff(a, b) == a - b

\* A debounce that accepts at the threshold itself.
Debounced_AtThreshold(m) == ticks_diff(m.now, m.lbt) >= DEBOUNCE_DELAY

\* A debounce that accepts as soon as any time has passed.
Debounced_NoWindow(m) == ticks_diff(m.now, m.lbt) > 0

\* A debounce whose window is half as long.
Debounced_HalfWindow(m) == ticks_diff(m.now, m.lbt) > DEBOUNCE_DELAY \div 2

Debounced(m) == ticks_diff(m.now, m.lbt) > DEBOUNCE_DELAY

check_button(m) ==
  LET t == m.now
      r == Read([m EXCEPT !.ct = t], "button", "button", "value", m.inp.button)
      v == [r EXCEPT !.held = @ /\ ~r.exc /\ m.inp.button = 0]
  IN IF v.exc \/ m.inp.button = 1 \/ ~Debounced(m) THEN v
     ELSE LET m1 == [v EXCEPT !.tr.button_ok = TRUE, !.page = NextPage(@),
                              !.adv = t]
              m2 == IF m1.tr.buzzer_ok THEN play_tone(m1, 1000, 100) ELSE m1
              m3 == IF m2.tr.rgb_led_ok
                    THEN set_rgb_color(Sleep(set_rgb_color(m2, 255, 255, 255), 100),
                                       0, 0, 0)
                    ELSE m2
          IN IF m3.exc THEN m3 ELSE [m3 EXCEPT !.lbt = t]

\* ---- the pages (489-600) ----
\* '{:.1f}' of a value kept in tenths
Fmt1(t) == ToString(t \div 10) \o "." \o ToString(t % 10)

\* '{:.0f}' of a value kept in tenths: to the nearest integer, ties to even
Fmt0(t) ==
  LET q == t \div 10
      r == t % 10
  IN ToString(IF r > 5 \/ (r = 5 /\ q % 2 = 1) THEN q + 1 ELSE q)

\* A percentage that rounds to the nearest integer instead of down.
Percent_Rounded(raw) == (raw * 200 + FULL_SCALE) \div (2 * FULL_SCALE)

Percent(raw) == (raw * 100) \div FULL_SCALE

StatusItems ==
  <<<<"OLED", "oled_ok">>, <<"WS2812B", "ws2812b_ok">>, <<"SD Card", "sd_ok">>,
    <<"DHT22", "dht22_ok">>, <<"Button", "button_ok">>>>

\* A status text without the button's "Press".
StatusText_NoPress(name, status) == IF status THEN "OK" ELSE "FAIL"

StatusText(name, status) ==
  IF status THEN "OK" ELSE IF name # "Button" THEN "FAIL" ELSE "Press"

RECURSIVE StatusLines(_, _)
\* the for loop of display_page1, from item number i on
StatusLines(m, i) ==
  IF i > Len(StatusItems) THEN m
  ELSE LET name == StatusItems[i][1]
           txt == name \o ": " \o StatusText(name, m.tr[StatusItems[i][2]])
       IN StatusLines(OledText(m, txt, 0, 12 + (i - 1) * 9), i + 1)

display_page1(m) == StatusLines(OledText(m, "== Pico2 W Status ==", 0, 0), 1)

display_page2(m) ==
  LET m1 == OledText(m, "=== Sensors ===", 0, 0)
      m2 == IF m1.tr.dht22_ok
            THEN OledText(OledText(m1, "Temp: " \o Fmt1(m1.tr.temperature) \o "C", 0, 12),
                          "Humidity: " \o Fmt1(m1.tr.humidity) \o "%", 0, 22)
            ELSE OledText(m1, "DHT22: No Data", 0, 12)
  IN IF m2.tr.ldr_ok
     THEN OledText(m2, "LDR: " \o ToString(Percent(m2.tr.ldr_value)) \o "%", 0, 32)
     ELSE OledText(m2, "LDR: FAIL", 0, 32)

display_page3(m) ==
  LET m1 == OledText(m, "=== Controls ===", 0, 0)
      m2 == IF m1.tr.trimmer_ok
            THEN OledText(m1, "Trimmer: " \o ToString(Percent(m1.tr.trimmer_value)) \o "%",
                          0, 12)
            ELSE OledText(m1, "Trimmer: FAIL", 0, 12)
      m3 == OledText(m2, "Buzzer: " \o (IF m2.tr.buzzer_ok THEN "OK" ELSE "FAIL"), 0, 22)
      m4 == OledText(m3, "RGB LED: " \o (IF m3.tr.rgb_led_ok THEN "OK" ELSE "FAIL"), 0, 32)
  IN OledText(OledText(m4, "Press button to", 0, 40), "cycle pages", 0, 50)

display_page4(m) ==
  LET m1 == OledText(test_trimmer(test_ldr(m)), "=== Live Data ===", 0, 0)
      m2 == OledText(m1, "T:" \o Fmt1(m1.tr.temperature) \o "C H:"
                         \o Fmt0(m1.tr.humidity) \o "%", 0, 12)
      m3 == OledText(m2, "LDR: " \o ToString(Percent(m2.tr.ldr_value)) \o "%", 0, 22)
      m4 == OledText(m3, "Trim: " \o ToString(Percent(m3.tr.trimmer_value)) \o "%", 0, 32)
  IN OledText(m4, "WS2812B: Rainbow", 0, 40)

\* ---- update_display (449-487) ----
PageText(p) == "P" \o ToString(p + 1) \o "/" \o ToString(TOTAL_PAGES)

RenderPage(m) ==
  IF m.page = 0 THEN display_page1(m)
  ELSE IF m.page = 1 THEN display_page2(m)
  ELSE IF m.page = 2 THEN display_page3(m)
  ELSE IF m.page = 3 THEN display_page4(m)
  ELSE m

DisplayDue(m) == ticks_diff(m.now, m.ldu) > DISPLAY_INTERVAL

update_display(m) ==
  IF m.exc \/ ~m.tr.oled_ok \/ ~DisplayDue(m) THEN m
  ELSE LET t == m.now
           m1 == OledShow(OledText(RenderPage(OledFill(m)), PageText(m.page), 96, 48))
       IN IF m1.exc THEN m1 ELSE [m1 EXCEPT !.ldu = t]

\* ---- hsv_to_rgb (675-708), in exact arithmetic ----
\* c, x and m are kept as numerators over HsvDen = 60 * 255 * 255
HsvDen == 60 * 255 * 255

Abs(n) == IF n < 0 THEN 0 - n ELSE n

\* A conversion that adds the offset m twice.
hsv_to_rgb_OffsetTwice(h, s, v) ==
  LET c == 60 * v * s
      x == v * s * (60 - Abs((h % 120) - 60))
      mm == 2 * 60 * v * (255 - s)
      rgb == IF h < 60 THEN <<c, x, 0>>
             ELSE IF h < 120 THEN <<x, c, 0>>
             ELSE IF h < 180 THEN <<0, c, x>>
             ELSE IF h < 240 THEN <<0, x, c>>
             ELSE IF h < 300 THEN <<x, 0, c>>
             ELSE <<c, 0, x>>
  IN <<((rgb[1] + mm) * 255) \div HsvDen, ((rgb[2] + mm) * 255) \div HsvDen,
       ((rgb[3] + mm) * 255) \div HsvDen>>

hsv_to_rgb(h, s, v) ==
  LET c == 60 * v * s
      x == v * s * (60 - Abs((h % 120) - 60))
      mm == 60 * v * (255 - s)
      rgb == IF 0 <= h /\ h < 60 THEN <<c, x, 0>>
             ELSE IF 60 <= h /\ h < 120 THEN <<x, c, 0>>
             ELSE IF 120 <= h /\ h < 180 THEN <<0, c, x>>
             ELSE IF 180 <= h /\ h < 240 THEN <<0, x, c>>
             ELSE IF 240 <= h /\ h < 300 THEN <<x, 0, c>>
             ELSE <<c, 0, x>>
  IN <<((rgb[1] + mm) * 255) \div HsvDen, ((rgb[2] + mm) * 255) \div HsvDen,
       ((rgb[3] + mm) * 255) \div HsvDen>>

\* ---- rainbow_demo (638-673) ----
PixelHue(ci, i) == (ci + i * PIXEL_HUE) % 360

\* A phase that counts on without wrapping.
NextPhase_NoWrap(ci) == ci + HUE_STEP

NextPhase(ci) == (ci + HUE_STEP) % 360

RECURSIVE SetPixels(_, _)
\* the for loop of rainbow_demo, from pixel i on
SetPixels(m, i) ==
  IF i >= NUM_PIXELS THEN m
  ELSE SetPixels(StripSet(m, i, hsv_to_rgb(PixelHue(m.ci, i), 255, RAINBOW_VALUE)), i + 1)

FrameDue(m) == ticks_diff(m.now, m.lru) > RAINBOW_INTERVAL

rainbow_demo(m) ==
  IF m.exc \/ ~m.tr.ws2812b_ok \/ ~FrameDue(m) THEN m
  ELSE LET t == m.now
           m1 == StripWrite(SetPixels(m, 0))
       IN IF m1.exc THEN m1
          ELSE [m1 EXCEPT !.ci = NextPhase(@), !.lru = t]

\* ---- the finally block of __main__ (764-779) ----
cleanup(m) ==
  IF ~constructed THEN m
  ELSE Catch(BuzzerDuty(StripWrite(StripFill(set_rgb_color(m, 0, 0, 0), Black)), 0))


\* ------------------------------------------------------------------------
\* The program as a state machine.
\* ------------------------------------------------------------------------
InitPcs ==
  {"init_oled", "init_ws2812b", "init_dht22", "init_button", "init_buzzer",
   "init_rgb_led", "init_adc", "init_sd"}

TestPcs ==
  {"test_dht22", "test_ldr", "test_trimmer", "test_buzzer", "test_rgb_led",
   "test_sd_card"}

LoopPcs == {"check_button", "update_display", "rainbow_demo", "sleep", "loop_except"}

\* test_results as __init__ fills it (60-77)
NoResults ==
  [oled_ok |-> FALSE, ws2812b_ok |-> FALSE, sd_ok |-> FALSE, dht22_ok |-> FALSE,
   button_ok |-> FALSE, buzzer_ok |-> FALSE, ldr_ok |-> FALSE,
   trimmer_ok |-> FALSE, rgb_led_ok |-> FALSE,
   temperature |-> 0, humidity |-> 0, ldr_value |-> 0, trimmer_value |-> 0]

\* the attributes as __init__ sets them before init_hardware (60-84)
Fresh ==
  /\ test_results = NoResults
  /\ current_page = 0
  /\ last_button_time = 0
  /\ last_display_update = 0
  /\ last_rainbow_update = 0
  /\ color_index = 0
  /\ attrs = {}
  /\ buzzer_duty = 0
  /\ led_duty = [ch \in Channels |-> 0]
  /\ pixels = AllOff
  /\ strip = AllOff
  /\ files = {}
  /\ now = 0
  /\ pc = "init_oled"
  /\ constructed = FALSE
  /\ interrupted = FALSE
  /\ ops = <<>>
  /\ faults = 0
  /\ iter = 0
  /\ init_attempts = [p \in Peripherals |-> 0]
  /\ init_done = {}
  /\ test_calls = [t \in TestPcs |-> 0]
  /\ last_advance = -1
  /\ current_time = 0
  /\ held_low = TRUE

Init == Fresh /\ fn_args = <<>> /\ fn_result = <<>>

\* a read that delivers something else than what was written is a fault too
Corrupt(m) == IF m.inp.content # WRITTEN THEN 1 ELSE 0

\* the state after a step that ended in m; F is exactly the calls that raised
Commit(m) ==
  /\ m.F = Raised(m)
  /\ faults' = faults + Cardinality(m.F) + Corrupt(m)
  /\ test_results' = m.tr
  /\ current_page' = m.page
  /\ last_button_time' = m.lbt
  /\ last_display_update' = m.ldu
  /\ last_rainbow_update' = m.lru
  /\ color_index' = m.ci
  /\ attrs' = m.attrs
  /\ buzzer_duty' = m.bz
  /\ led_duty' = m.led
  /\ pixels' = m.px
  /\ strip' = m.strip
  /\ files' = m.files
  /\ now' = m.now
  /\ ops' = m.ops
  /\ init_attempts' = m.att
  /\ init_done' = m.done
  /\ last_advance' = m.adv
  /\ current_time' = m.ct
  /\ held_low' = m.held
  /\ UNCHANGED <<fn_args, fn_result>>

Budget == MaxFaults - faults

\* ---- ComponentTest() : __init__ runs init_hardware ----
InitOled ==
  /\ pc = "init_oled"
  /\ \E F \in FaultSets(6, Budget) : Commit(init_oled(Start(F, NoInput)))
  /\ pc' = "init_ws2812b"
  /\ UNCHANGED <<constructed, interrupted, iter, test_calls>>

InitWs2812b ==
  /\ pc = "init_ws2812b"
  /\ \E F \in FaultSets(3, Budget) : Commit(init_ws2812b(Start(F, NoInput)))
  /\ pc' = "init_dht22"
  /\ UNCHANGED <<constructed, interrupted, iter, test_calls>>

InitDht22 ==
  /\ pc = "init_dht22"
  /\ \E F \in FaultSets(1, Budget) : Commit(init_dht22(Start(F, NoInput)))
  /\ pc' = "init_button"
  /\ UNCHANGED <<constructed, interrupted, iter, test_calls>>

InitButton ==
  /\ pc = "init_button"
  /\ \E F \in FaultSets(1, Budget) : Commit(init_button(Start(F, NoInput)))
  /\ pc' = "init_buzzer"
  /\ UNCHANGED <<constructed, interrupted, iter, test_calls>>

InitBuzzer ==
  /\ pc = "init_buzzer"
  /\ \E F \in FaultSets(3, Budget) : Commit(init_buzzer(Start(F, NoInput)))
  /\ pc' = "init_rgb_led"
  /\ UNCHANGED <<constructed, interrupted, iter, test_calls>>

InitRgbLed ==
  /\ pc = "init_rgb_led"
  /\ \E F \in FaultSets(6, Budget) : Commit(init_rgb_led(Start(F, NoInput)))
  /\ pc' = "init_adc"
  /\ UNCHANGED <<constructed, interrupted, iter, test_calls>>

InitAdc ==
  /\ pc = "init_adc"
  /\ \E F \in FaultSets(2, Budget) : Commit(init_adc(Start(F, NoInput)))
  /\ pc' = "init_sd"
  /\ UNCHANGED <<constructed, interrupted, iter, test_calls>>

\* the last block; __init__ returns and component_test is bound (757)
InitSd ==
  /\ pc = "init_sd"
  /\ \E F \in FaultSets(4, Budget) : Commit(init_sd(Start(F, NoInput)))
  /\ pc' = "run"
  /\ constructed' = TRUE
  /\ UNCHANGED <<interrupted, iter, test_calls>>

\* ---- run (710-725) up to the first test of run_all_tests (237-248) ----
progress(m) ==
  IF m.tr.oled_ok THEN OledShow(OledText(OledFill(m), "Running Tests...", 0, 0)) ELSE m

Run ==
  /\ pc = "run"
  /\ \E F \in FaultSets(3, Budget) :
       LET m == progress(Sleep(Start(F, NoInput), SETTLE))
       IN /\ Commit(m)
          /\ pc' = IF m.exc THEN "main_except" ELSE "test_dht22"
  /\ UNCHANGED <<constructed, interrupted, iter, test_calls>>

Called(t) == test_calls' = [test_calls EXCEPT ![t] = @ + 1]

TestDht22 ==
  /\ pc = "test_dht22"
  /\ \E F \in FaultSets(3, Budget), t \in Temps, h \in Hums :
       Commit(test_dht22(Start(F, [NoInput EXCEPT !.temp = t, !.hum = h])))
  /\ Called("test_dht22")
  /\ pc' = "test_ldr"
  /\ UNCHANGED <<constructed, interrupted, iter>>

TestLdr ==
  /\ pc = "test_ldr"
  /\ \E F \in FaultSets(1, Budget), v \in LdrVals :
       Commit(test_ldr(Start(F, [NoInput EXCEPT !.ldr = v])))
  /\ Called("test_ldr")
  /\ pc' = "test_trimmer"
  /\ UNCHANGED <<constructed, interrupted, iter>>

TestTrimmer ==
  /\ pc = "test_trimmer"
  /\ \E F \in FaultSets(1, Budget), v \in TrimmerVals :
       Commit(test_trimmer(Start(F, [NoInput EXCEPT !.trimmer = v])))
  /\ Called("test_trimmer")
  /\ pc' = "test_buzzer"
  /\ UNCHANGED <<constructed, interrupted, iter>>

TestBuzzer ==
  /\ pc = "test_buzzer"
  /\ \E F \in FaultSets(6, Budget) : Commit(test_buzzer(Start(F, NoInput)))
  /\ Called("test_buzzer")
  /\ pc' = "test_rgb_led"
  /\ UNCHANGED <<constructed, interrupted, iter>>

TestRgbLed ==
  /\ pc = "test_rgb_led"
  /\ \E F \in FaultSets(15, Budget) : Commit(test_rgb_led(Start(F, NoInput)))
  /\ Called("test_rgb_led")
  /\ pc' = "test_sd_card"
  /\ UNCHANGED <<constructed, interrupted, iter>>

\* a read that delivers something else than the file is a fault of the card
TestSdCard ==
  /\ pc = "test_sd_card"
  /\ \E F \in FaultSets(5, Budget), c \in Contents :
       LET m == test_sd_card(Start(F, [NoInput EXCEPT !.content = c]))
           bad == IF c = WRITTEN THEN 0 ELSE 1
       IN /\ Cardinality(F) + bad <= Budget
          /\ c # WRITTEN => \E i \in 1..Len(m.ops) : m.ops[i].op = "read" /\ m.ops[i].ok
          /\ Commit(m)
  /\ Called("test_sd_card")
  /\ pc' = "check_button"
  /\ UNCHANGED <<constructed, interrupted, iter>>

\* ---- the main loop (727-749) ----
\* one call of check_button, the button read delivering a level of B, in a run
\* of at most n iterations
ButtonCheck(B, n) ==
  /\ pc = "check_button"
  /\ iter < n
  /\ iter' = iter + 1
  /\ \E F \in FaultSets(10, Budget), b \in B :
       LET m == check_button(Start(F, [NoInput EXCEPT !.button = b]))
       IN /\ Commit(m)
          /\ pc' = IF m.exc THEN "loop_except" ELSE "update_display"
  /\ UNCHANGED <<constructed, interrupted, test_calls>>

CheckButton == ButtonCheck({0, 1}, MaxIter)

UpdateDisplay ==
  /\ pc = "update_display"
  /\ \E F \in FaultSets(10, Budget), l \in LdrVals, t \in TrimmerVals :
       LET m == update_display(Start(F, [NoInput EXCEPT !.ldr = l, !.trimmer = t]))
       IN /\ Commit(m)
          /\ pc' = IF m.exc THEN "loop_except" ELSE "rainbow_demo"
  /\ UNCHANGED <<constructed, interrupted, iter, test_calls>>

RainbowDemo ==
  /\ pc = "rainbow_demo"
  /\ \E F \in FaultSets(NUM_PIXELS + 1, Budget) :
       LET s == Start(F, NoInput)
           m == IF s.tr.ws2812b_ok THEN rainbow_demo(s) ELSE s
       IN /\ Commit(m)
          /\ pc' = IF m.exc THEN "loop_except" ELSE "sleep"
  /\ UNCHANGED <<constructed, interrupted, iter, test_calls>>

LoopSleep ==
  /\ pc = "sleep"
  /\ Commit(Sleep(Start({}, NoInput), LOOP_SLEEP))
  /\ pc' = "check_button"
  /\ UNCHANGED <<constructed, interrupted, iter, test_calls>>

\* A handler that gives up instead of going round again.
LoopExcept_GivesUp ==
  /\ pc = "loop_except"
  /\ Commit(Start({}, NoInput))
  /\ pc' = "main_except"
  /\ UNCHANGED <<constructed, interrupted, iter, test_calls>>

\* except Exception (746-749): report, pause, go round again
LoopExcept ==
  /\ pc = "loop_except"
  /\ Commit(Sleep(Start({}, NoInput), ERROR_SLEEP))
  /\ pc' = "check_button"
  /\ UNCHANGED <<constructed, interrupted, iter, test_calls>>

\* Ctrl-C: out of the loop by break (741-744), out of everything else by
\* propagation, which `except Exception` (760) does not stop
KeyboardInterrupt ==
  /\ pc \in InitPcs \cup {"run"} \cup TestPcs \cup {"sleep", "loop_except"}
  /\ interrupted' = TRUE
  /\ pc' = "cleanup"
  /\ UNCHANGED <<test_results, current_page, last_button_time, last_display_update,
                 last_rainbow_update, color_index, attrs, buzzer_duty, led_duty,
                 pixels, strip, files, now, constructed, ops, faults, iter,
                 init_attempts, init_done, test_calls, last_advance, current_time,
                 held_low, fn_args, fn_result>>

\* except Exception (760-762)
MainExcept ==
  /\ pc = "main_except"
  /\ pc' = "cleanup"
  /\ UNCHANGED <<test_results, current_page, last_button_time, last_display_update,
                 last_rainbow_update, color_index, attrs, buzzer_duty, led_duty,
                 pixels, strip, files, now, constructed, interrupted, ops, faults,
                 iter, init_attempts, init_done, test_calls, last_advance, current_time,
                 held_low, fn_args, fn_result>>

Cleanup ==
  /\ pc = "cleanup"
  /\ \E F \in FaultSets(6, Budget) : Commit(cleanup(Start(F, NoInput)))
  /\ pc' = "done"
  /\ UNCHANGED <<constructed, interrupted, iter, test_calls>>

Next ==
  \/ InitOled \/ InitWs2812b \/ InitDht22 \/ InitButton
  \/ InitBuzzer \/ InitRgbLed \/ InitAdc \/ InitSd
  \/ Run
  \/ TestDht22 \/ TestLdr \/ TestTrimmer \/ TestBuzzer \/ TestRgbLed \/ TestSdCard
  \/ CheckButton \/ UpdateDisplay \/ RainbowDemo \/ LoopSleep \/ LoopExcept
  \/ KeyboardInterrupt \/ MainExcept \/ Cleanup

Spec == Init /\ [][Next]_vars


\* ------------------------------------------------------------------------
\* The program left alone: after an __init__ in which the constructors of
\* some peripherals raised, no driver call raises and nobody presses the button.
\* ------------------------------------------------------------------------
\* the record of the attributes as __init__ sets them (60-84)
Blank ==
  [tr |-> NoResults, page |-> 0, lbt |-> 0, ldu |-> 0, lru |-> 0, ci |-> 0,
   attrs |-> {}, bz |-> 0, led |-> [ch \in Channels |-> 0], px |-> AllOff,
   strip |-> AllOff, files |-> {}, now |-> 0,
   att |-> [p \in Peripherals |-> 0], done |-> {}, adv |-> -1, ct |-> 0,
   held |-> TRUE,
   ops |-> <<>>, exc |-> FALSE, F |-> {}, inp |-> NoInput]

\* m at the start of the next call, in which the calls numbered in F raise
Step(m, F, inp) == [m EXCEPT !.ops = <<>>, !.exc = FALSE, !.F = F, !.inp = inp]

\* the first driver call of a block, its constructor, raises for the
\* peripherals in D
Fails(D, p) == IF p \in D THEN {1} ELSE {}

\* __init__ (53-88) with init_hardware (90-235)
Boot(D) ==
  LET i1 == init_oled(Step(Blank, Fails(D, "oled"), NoInput))
      i2 == init_ws2812b(Step(i1, Fails(D, "ws2812b"), NoInput))
      i3 == init_dht22(Step(i2, Fails(D, "dht22"), NoInput))
      i4 == init_button(Step(i3, Fails(D, "button"), NoInput))
      i5 == init_buzzer(Step(i4, Fails(D, "buzzer"), NoInput))
      i6 == init_rgb_led(Step(i5, Fails(D, "rgb_led"), NoInput))
      i7 == init_adc(Step(i6, Fails(D, "ldr"), NoInput))
  IN init_sd(Step(i7, Fails(D, "sd"), NoInput))

\* the peripherals the loop drives when nobody presses the button
OutputDevices == {"oled", "ws2812b"}

\* iterations of the main loop when left alone: 24 frames of the animation, one
\* every fourth iteration, bring the phase round once
MaxIdle == 100

IdleInit ==
  \E D \in SUBSET OutputDevices :
    LET m == Boot(D)
    IN /\ test_results = m.tr
       /\ current_page = m.page
       /\ last_button_time = m.lbt
       /\ last_display_update = m.ldu
       /\ last_rainbow_update = m.lru
       /\ color_index = m.ci
       /\ attrs = m.attrs
       /\ buzzer_duty = m.bz
       /\ led_duty = m.led
       /\ pixels = m.px
       /\ strip = m.strip
       /\ files = m.files
       /\ now = m.now
       /\ pc = "run"
       /\ constructed = TRUE
       /\ interrupted = FALSE
       /\ ops = m.ops
       /\ faults = MaxFaults
       /\ iter = 0
       /\ init_attempts = m.att
       /\ init_done = m.done
       /\ test_calls = [t \in TestPcs |-> 0]
       /\ last_advance = m.adv
       /\ current_time = m.ct
       /\ held_low = m.held
       /\ fn_args = <<>>
       /\ fn_result = <<>>

\* the button read delivers 1: not pressed (421)
IdleCheckButton == ButtonCheck({1}, MaxIdle)

IdleNext ==
  \/ Run
  \/ TestDht22 \/ TestLdr \/ TestTrimmer \/ TestBuzzer \/ TestRgbLed \/ TestSdCard
  \/ IdleCheckButton \/ UpdateDisplay \/ RainbowDemo \/ LoopSleep

IdleSpec == IdleInit /\ [][IdleNext]_vars

\* ------------------------------------------------------------------------
\* The pure functions, each called on its own on arguments drawn at the start.
\* ------------------------------------------------------------------------
\* the program's own variables, which a call of a pure function leaves alone
prog_vars ==
  <<test_results, current_page, last_button_time, last_display_update,
    last_rainbow_update, color_index, attrs, buzzer_duty, led_duty, pixels,
    strip, files, now, pc, constructed, interrupted, ops, faults, iter,
    init_attempts, init_done, test_calls, last_advance, current_time,
    held_low>>

\* ---- (value * 100) // 65535 of pages 2, 3 and 4 (542, 557, 592, 596) ----
\* what a 16-bit read_u16() can return
RawVals == 0..FULL_SCALE

PercentInit == Fresh /\ fn_args \in {<<raw>> : raw \in RawVals} /\ fn_result = <<>>

PercentCall ==
  /\ fn_result = <<>>
  /\ fn_result' = <<Percent(fn_args[1])>>
  /\ UNCHANGED <<fn_args, prog_vars>>

PercentSpec == PercentInit /\ [][PercentCall]_vars

\* ---- hsv_to_rgb (675-708) ----
\* the hues rainbow_demo can pass (657): the integers of [0, 360)
Hues == 0..359

\* the saturations and values tried: every third level of 0..255, both ends,
\* the levels around the middle and the value rainbow_demo passes (660)
Levels == {l \in 0..255 : l % 3 = 0} \cup {1, 2, 127, 128, 254, RAINBOW_VALUE}

HsvInit ==
  /\ Fresh
  /\ \E h \in Hues, s \in Levels, v \in Levels : fn_args = <<h, s, v>>
  /\ fn_result = <<>>

HsvCall ==
  /\ fn_result = <<>>
  /\ fn_result' = hsv_to_rgb(fn_args[1], fn_args[2], fn_args[3])
  /\ UNCHANGED <<fn_args, prog_vars>>

HsvSpec == HsvInit /\ [][HsvCall]_vars


\* ------------------------------------------------------------------------
\* The claims.
\* ------------------------------------------------------------------------
\* the calls of the last step on peripheral p
CallsOn(p) == {i \in 1..Len(ops) : ops[i].dev = p}

\* the last step issued method op on peripheral p
Issued(p, op) == \E i \in CallsOn(p) : ops[i].op = op

\* a call of the last step on peripheral p raised
RaisedOn(p) == \E i \in CallsOn(p) : ~ops[i].ok

InitOver == pc = "run"

\* C1: when init_hardware is over, every peripheral has had exactly one
\* initialisation attempt, whatever failed before it, and every peripheral whose
\* own initialisation sequence raised nothing is available.  (The button is left
\* out of the second half: button_ok records a press, not the initialisation.)
C1_InitIndependent ==
  InitOver =>
    /\ \A p \in Peripherals : init_attempts[p] = 1
    /\ \A p \in init_done \ {"button"} : test_results[FlagOf[p]]

ShutdownDone == pc = "done" /\ constructed

\* C2: when the shutdown sequence has run on existing handles and its
\* RGB-disable step raised, the strip has still been filled and written and the
\* buzzer duty has still been set to zero.
C2_ShutdownGoesOn ==
  (ShutdownDone /\ RaisedOn("rgb_led") /\ {"ws2812b", "buzzer"} \subseteq attrs) =>
    /\ Issued("ws2812b", "fill")
    /\ Issued("ws2812b", "write")
    /\ \E i \in CallsOn("buzzer") : ops[i].op = "duty_u16" /\ ops[i].arg = <<0>>


\* ---- the button ----
\* the step about to be taken is a call of check_button
InCheckButton == pc = "check_button"

\* check_button has just sampled the button low (pressed)
SampledLow ==
  /\ Len(ops) >= 1
  /\ ops[1].dev = "button" /\ ops[1].op = "value" /\ ops[1].ret = <<0>>

\* C3: a button activation sampled less than 200 after the sample that last
\* advanced the page does not advance it again; one sampled more than 200 after
\* it advances the page by one.
C3_Debounce ==
  [][(InCheckButton /\ SampledLow' /\ last_advance >= 0) =>
       /\ (now - last_advance < 200 => current_page' = current_page)
       /\ (now - last_advance > 200 => current_page' = (current_page + 1) % 4
                                       /\ last_advance' = now)]_vars

\* check_button has just ignored an activation sampled inside the window of the
\* first accepted one: still exactly one advance
C3_Witness ==
  /\ pc = "update_display"
  /\ SampledLow
  /\ last_advance >= 0
  /\ current_time - last_advance > 0
  /\ current_time - last_advance < 200
  /\ current_page = 1

\* C4: the page cursor starts at 0, stays in 0..TOTAL_PAGES-1 = 0..3, and
\* changes only in a call of check_button that samples the button low with the
\* debounce time elapsed, which takes it to (current_page + 1) mod 4.
C4_PageCursor ==
  /\ current_page = 0
  /\ [](current_page \in 0..(TOTAL_PAGES - 1) /\ TOTAL_PAGES = 4)
  /\ [][current_page' # current_page =>
          /\ InCheckButton
          /\ SampledLow'
          /\ now - last_button_time > DEBOUNCE_DELAY
          /\ current_page' = (current_page + 1) % 4]_vars

\* the cursor is back at 0 after four accepted triggers
C4_Witness ==
  /\ current_page = 0
  /\ last_advance >= 0
  /\ test_results.button_ok

\* ---- driving unavailable peripherals ----
\* the states whose last step is a step of the program after init_hardware
AfterInitStep == pc \in TestPcs \cup LoopPcs \cup {"main_except", "done"}

\* C5: no step after initialisation issues a driver call on a peripheral whose
\* status flag is false at that moment.
C5_NeverDrivesUnavailable ==
  AfterInitStep => \A i \in 1..Len(ops) : ops[i].avail

\* ---- errors in the main loop ----
\* the states whose last step is check_button, update_display or rainbow_demo
AfterLoopCall == pc \in {"update_display", "rainbow_demo", "sleep", "loop_except"}

\* C6: a driver call that raises inside check_button, update_display or
\* rainbow_demo leaves its peripheral unavailable and does not take the program
\* to the main loop's exception handler.
C6_ErrorsStayInside ==
  AfterLoopCall =>
    \A i \in 1..Len(ops) :
      ~ops[i].ok => /\ ~test_results[FlagOf[ops[i].dev]]
                    /\ pc # "loop_except"

\* C7: the program leaves the main loop, or ends before reaching it, only
\* after a KeyboardInterrupt.
C7_OnlyStopRequestEnds ==
  pc \in {"main_except", "cleanup", "done"} => interrupted

\* ---- what the pages show ----
\* the strings the last step drew on the display
Drawn == {ops[i].arg[1] : i \in {j \in CallsOn("oled") : ops[j].op = "text"}}

TempVals == {0} \cup Temps
HumVals == {0} \cup Hums
LdrSeen == {0} \cup LdrVals
TrimmerSeen == {0} \cup TrimmerVals

\* the lines that show a measured value, or OK, for a sensor
ValueLines(sensor) ==
  IF sensor = "dht22"
  THEN {"DHT22: OK"}
       \cup {"Temp: " \o Fmt1(t) \o "C" : t \in TempVals}
       \cup {"Humidity: " \o Fmt1(h) \o "%" : h \in HumVals}
       \cup {"T:" \o Fmt1(t) \o "C H:" \o Fmt0(h) \o "%" : t \in TempVals, h \in HumVals}
  ELSE IF sensor = "ldr"
  THEN {"LDR: " \o ToString(Percent(v)) \o "%" : v \in LdrSeen}
  ELSE {"Trimmer: " \o ToString(Percent(v)) \o "%" : v \in TrimmerSeen}
       \cup {"Trim: " \o ToString(Percent(v)) \o "%" : v \in TrimmerSeen}

Sensors == {"dht22", "ldr", "trimmer"}

\* C8: a redraw never shows a measured value or OK for a sensor whose status
\* flag is false.
C8_NoValueForFailedSensor ==
  pc \in {"rainbow_demo", "loop_except"} =>
    \A sn \in Sensors : ~test_results[FlagOf[sn]] => Drawn \cap ValueLines(sn) = {}

\* ---- run_all_tests ----
\* test_sd_card has just returned from a run on an available card
SdTestRan == pc = "check_button" /\ iter = 0 /\ CallsOn("sd") # {}

\* C9: after test_sd_card has run on an available card the test file does not
\* exist, and sd_ok is false if any step failed.
C9_TestFileGone ==
  SdTestRan => /\ ~Exists(files, TEST_FILE)
               /\ (RaisedOn("sd") => ~test_results.sd_ok)

\* run_all_tests is over: it has returned, or an exception has left it
TestsOver == pc = "main_except" \/ (pc = "check_button" /\ iter = 0)

\* C10: when run_all_tests is over, whatever failed, each of the six tests has
\* been called exactly once.
C10_EveryTestReached ==
  TestsOver => \A t \in TestPcs : test_calls[t] = 1


\* ---- the main loop ----
InLoop == pc \in LoopPcs

\* C11: an error that leaves a call of the main loop is caught by the loop's
\* handler, which pauses ERROR_SLEEP and starts the next iteration; no step
\* leaves the loop except on the interrupt signal.
C11_LoopSurvivesErrors ==
  /\ [][InLoop => (pc' \in LoopPcs \/ (interrupted' /\ pc' = "cleanup"))]_vars
  /\ [][pc = "loop_except" =>
          \/ pc' = "check_button" /\ now' = now + ERROR_SLEEP
          \/ interrupted']_vars

\* the feedback of an accepted press raised (its time was not recorded), the
\* handler paused, and a later iteration sampled the button and went on
C11_Witness ==
  /\ pc = "update_display"
  /\ last_advance > last_button_time
  /\ current_time - last_advance >= ERROR_SLEEP
  /\ ~interrupted

\* a full redraw has been committed at some time (the clock is past SETTLE
\* when the loop starts, so the recorded time is positive)
Redrawn == last_display_update > 0

\* the first iteration of the main loop is over
IterationOver == pc = "check_button" /\ iter >= 1

\* C12: every iteration performs the input check, the display check and the
\* animation check, so with the display available and no stop request the
\* redraw that is due in the first iteration (the clock is more than
\* DISPLAY_INTERVAL past last_display_update = 0) has happened when that
\* iteration is over, also when the button's initialisation failed.
C12_DisplayCheckRuns ==
  (IterationOver /\ test_results.oled_ok /\ "button" \notin attrs /\ ~interrupted)
    => Redrawn

\* ---- the status page ----
\* the only driver call that ever failed is the DHT22 constructor (143)
OnlySensorFailed == faults = 1 /\ init_attempts["dht22"] = 1 /\ "dht22" \notin attrs

\* the last step drew the status page
StatusPageDrawn == \E i \in CallsOn("oled") :
  ops[i].op = "text" /\ ops[i].arg[1] = "== Pico2 W Status =="

\* the status lines that say FAIL, and the calls of the last step that drew one
FailLines == {StatusItems[i][1] \o ": FAIL" : i \in 1..Len(StatusItems)}

FailDrawn == {i \in CallsOn("oled") : ops[i].op = "text" /\ ops[i].arg[1] \in FailLines}

\* C13: when only the DHT22 failed to initialise, then in the main loop every
\* other peripheral's flag is set (the button's once a press was accepted), the
\* sensor's is not, and a redraw of the status page draws exactly one FAIL line.
C13_OneFailLine ==
  (OnlySensorFailed /\ InLoop) =>
    /\ \A p \in Peripherals \ {"dht22", "button"} : test_results[FlagOf[p]]
    /\ ~test_results.dht22_ok
    /\ (last_advance >= 0 => test_results.button_ok)
    /\ (StatusPageDrawn => Cardinality(FailDrawn) = 1)

\* the status page redrawn after the cursor went round, the button pressed
C13_Witness ==
  /\ OnlySensorFailed
  /\ pc = "rainbow_demo"
  /\ StatusPageDrawn
  /\ test_results.button_ok
  /\ Cardinality(FailDrawn) = 1

\* ---- the percentage ----
Returned == fn_result # <<>>

\* C14: for every raw value in 0..65535 the percentage is an integer in
\* 0..100 with 0 -> 0, 32767 -> 49 and 65535 -> 100, and it is not smaller
\* than the percentage of the raw value before it (so it never decreases).
C14_Percent ==
  Returned =>
    LET raw == fn_args[1]
        pct == fn_result[1]
    IN /\ pct \in 0..100
       /\ pct * FULL_SCALE <= raw * 100
       /\ raw * 100 < (pct + 1) * FULL_SCALE
       /\ (raw = 0 => pct = 0)
       /\ (raw = 32767 => pct = 49)
       /\ (raw = 65535 => pct = 100)
       /\ (raw > 0 => Percent(raw - 1) <= pct)

\* the conversion has returned for the half-scale reading
C14_Witness == Returned /\ fn_args = <<32767>> /\ fn_result = <<49>>

\* ---- the colour converter ----
\* C15: for every hue in [0, 360) and every saturation and value in [0, 255]
\* each channel hsv_to_rgb returns is an integer in [0, 255]; at full
\* saturation and value hue 0 gives (255, 0, 0) and hue 120 gives (0, 255, 0).
C15_ChannelsInRange ==
  Returned =>
    /\ \A k \in 1..3 : fn_result[k] \in 0..255
    /\ (fn_args = <<0, 255, 255>> => fn_result = <<255, 0, 0>>)
    /\ (fn_args = <<120, 255, 255>> => fn_result = <<0, 255, 0>>)

\* the conversion has returned pure green
C15_Witness == Returned /\ fn_args = <<120, 255, 255>> /\ fn_result = <<0, 255, 0>>

\* n / d rounded to the nearest integer, a tie to the even one (Python's round)
RoundDiv(n, d) ==
  LET q == n \div d
      r == n % d
  IN IF 2 * r > d \/ (2 * r = d /\ q % 2 = 1) THEN q + 1 ELSE q

\* the six-sextant conversion with each channel round((channel + m) * 255),
\* on numerators over HsvDen
StandardHsv(h, s, v) ==
  LET c == 60 * v * s
      x == v * s * (60 - Abs((h % 120) - 60))
      mm == 60 * v * (255 - s)
      k == h \div 60
      rgb == IF k = 0 THEN <<c, x, 0>>
             ELSE IF k = 1 THEN <<x, c, 0>>
             ELSE IF k = 2 THEN <<0, c, x>>
             ELSE IF k = 3 THEN <<0, x, c>>
             ELSE IF k = 4 THEN <<x, 0, c>>
             ELSE <<c, 0, x>>
  IN <<RoundDiv((rgb[1] + mm) * 255, HsvDen), RoundDiv((rgb[2] + mm) * 255, HsvDen),
       RoundDiv((rgb[3] + mm) * 255, HsvDen)>>

\* C16: for every hue in [0, 360) and saturation and value in [0, 255]
\* hsv_to_rgb returns exactly the standard six-sextant result with each channel
\* rounded to the nearest integer.
C16_ExactStandard ==
  Returned => fn_result = StandardHsv(fn_args[1], fn_args[2], fn_args[3])

\* ---- an ignored activation ----
\* C17: a call of check_button that samples the button low no more than
\* DEBOUNCE_DELAY = 200 after the sample of the last accepted press changes
\* neither the cursor, nor the recorded press time, nor any flag or value of
\* test_results, and issues no call on the buzzer or the RGB channels.
C17_IgnoredPressChangesNothing ==
  [][(InCheckButton /\ SampledLow' /\ last_advance >= 0 /\ now - last_advance <= 200) =>
       /\ UNCHANGED <<current_page, last_button_time, last_advance, test_results,
                      buzzer_duty, led_duty, now>>
       /\ Len(ops') = 1]_vars

\* an activation sampled exactly DEBOUNCE_DELAY after the accepted one was ignored
C17_Witness ==
  /\ pc = "update_display"
  /\ SampledLow
  /\ last_advance >= 0
  /\ current_time - last_advance = DEBOUNCE_DELAY
  /\ last_button_time = last_advance
  /\ Len(ops) = 1

\* ---- the animation ----
\* the step about to be taken is the animation check of the loop (734-735)
InRainbowDemo == pc = "rainbow_demo"

\* the calls of a complete frame: pixel 0..9 assigned in order, then one write
FrameCalls(log) ==
  /\ Len(log) = NUM_PIXELS + 1
  /\ \A i \in 0..(NUM_PIXELS - 1) :
       log[i + 1].dev = "ws2812b" /\ log[i + 1].op = "setitem" /\ log[i + 1].arg[1] = i
  /\ log[NUM_PIXELS + 1].dev = "ws2812b" /\ log[NUM_PIXELS + 1].op = "write"

\* C18: the animation check performs a frame only when the strip is available
\* and more than 150 has passed since the last frame; a frame gives LED i the
\* colour of hue (phase + 36 * i) mod 360 for i in 0..9, writes the strip once,
\* advances the phase to (phase + 15) mod 360 and records the time; otherwise
\* nothing is written and phase and time stay.  The phase is always a multiple
\* of 15 in 0..359.
C18_RainbowFrame ==
  /\ [](color_index \in 0..359 /\ color_index % 15 = 0)
  /\ [][(InRainbowDemo /\ pc' # "loop_except") =>
          IF test_results.ws2812b_ok /\ now - last_rainbow_update > 150
          THEN /\ FrameCalls(ops')
               /\ \A i \in 0..9 :
                    pixels'[i] = hsv_to_rgb((color_index + 36 * i) % 360, 255, 100)
               /\ strip' = pixels'
               /\ color_index' = (color_index + 15) % 360
               /\ last_rainbow_update' = now
          ELSE /\ ops' = <<>>
               /\ UNCHANGED <<color_index, last_rainbow_update, pixels, strip>>]_vars

\* the frame that brings the phase round to 0 has been written
C18_Witness ==
  /\ pc = "sleep"
  /\ FrameCalls(ops)
  /\ color_index = 0
  /\ last_rainbow_update > 0
  /\ pixels[0] = hsv_to_rgb(345, 255, 100)

\* ---- the display ----
\* the step about to be taken is the display check of the loop (731)
InUpdateDisplay == pc = "update_display"

IsOled(e) == e.dev = "oled"

\* the first line each page renderer draws
Titles ==
  <<"== Pico2 W Status ==", "=== Sensors ===", "=== Controls ===", "=== Live Data ===">>

\* the display calls of a full redraw of page number p (from 0): one clear,
\* the lines of that page and no other, the page indicator, one commit
RedrawCalls(log, p) ==
  LET oc == SelectSeq(log, IsOled)
      n == Len(oc)
  IN /\ n >= 4
     /\ oc[1].op = "fill"
     /\ oc[2].op = "text" /\ oc[2].arg[1] = Titles[p + 1]
     /\ \A i \in 2..(n - 1) : oc[i].op = "text"
     /\ \A i \in 3..(n - 1) : \A q \in 1..Len(Titles) : oc[i].arg[1] # Titles[q]
     /\ oc[n - 1].arg = <<PageText(p), 96, 48>>
     /\ oc[n].op = "show"

\* C19: a display check that does not raise redraws only when the display's
\* initialisation succeeded and more than 500 has passed since the last
\* redraw: clear, the renderer of the current page, the page indicator, one
\* commit, and the redraw time recorded; otherwise, and always when the display
\* failed to initialise, it issues no call and records nothing.
C19_RedrawOnlyWhenDue ==
  [][(InUpdateDisplay /\ pc' # "loop_except") =>
       IF "oled" \in init_done /\ now - last_display_update > 500
       THEN RedrawCalls(ops', current_page) /\ last_display_update' = now
       ELSE ops' = <<>> /\ UNCHANGED last_display_update]_vars


\* ---- the status flags after initialisation ----
Flagged == Peripherals \ {"button"}

AfterInit == pc \notin InitPcs

\* a call on peripheral p, issued while p was flagged available, raised
FailedWhileAvailable(log, p) ==
  \E i \in 1..Len(log) : log[i].dev = p /\ log[i].avail /\ ~log[i].ok

\* C20: once init_hardware has finished, no status flag other than the
\* button's ever goes from false to true, and every self-test or loop step in
\* which a call on an available peripheral raises leaves that peripheral's
\* flag false.
C20_FlagsOnlyFall ==
  [][\A p \in Flagged :
       /\ (AfterInit /\ ~test_results[FlagOf[p]]) => ~test_results'[FlagOf[p]]
       /\ (/\ pc \in TestPcs \cup LoopPcs
           /\ interrupted' = interrupted
           /\ FailedWhileAvailable(ops', p)) => ~test_results'[FlagOf[p]]]_vars


\* ---- the buzzer test ----
\* the step about to be taken is run_all_tests' call of test_buzzer (255)
InTestBuzzer == pc = "test_buzzer" /\ interrupted' = interrupted

\* C21: test_buzzer never raises to its caller (the next self-test follows),
\* and when a buzzer call raised while one of its two tones was being
\* emitted, buzzer_ok is false when it returns.
C21_BuzzerTestDemotes ==
  [][InTestBuzzer =>
       /\ pc' = "test_rgb_led"
       /\ FailedWhileAvailable(ops', "buzzer") => ~test_results'.buzzer_ok]_vars


\* ---- idle-state setup at initialisation ----
\* call number i of the log is a completed call of method op with arguments
\* arg on handle obj
Did(log, i, obj, op, arg) ==
  /\ log[i].obj = obj /\ log[i].op = op /\ log[i].arg = arg /\ log[i].ok

Applied(log, obj, op, arg) == \E i \in 1..Len(log) : Did(log, i, obj, op, arg)

\* peripheral p is made available by the step
BecomesAvailable(p) == ~test_results[FlagOf[p]] /\ test_results'[FlagOf[p]]

\* C22: the init_hardware step that makes a peripheral available has applied
\* its idle state to the hardware: the strip filled black and then written,
\* the buzzer's duty set to zero, each of the three RGB channels' duty set to
\* zero.
C22_IdleSetupApplied ==
  [][/\ BecomesAvailable("ws2812b") =>
          \E i, j \in 1..Len(ops') :
            /\ i < j
            /\ Did(ops', i, "ws2812b", "fill", Black)
            /\ Did(ops', j, "ws2812b", "write", <<>>)
     /\ BecomesAvailable("buzzer") => Applied(ops', "buzzer", "duty_u16", <<0>>)
     /\ BecomesAvailable("rgb_led") =>
          \A c \in Channels : Applied(ops', c, "duty_u16", <<0>>)]_vars


\* ---- the stored measurements ----
\* a call on peripheral p raised in the step's log
RaisedIn(log, p) == \E i \in 1..Len(log) : log[i].dev = p /\ ~log[i].ok

\* a call of method op on peripheral p returned in the step's log
ReturnedIn(log, p, op) ==
  \E i \in 1..Len(log) : log[i].dev = p /\ log[i].op = op /\ log[i].ok

Climate(tr) == <<tr.temperature, tr.humidity>>

\* C23: a step in which the trigger, the temperature read or the humidity
\* read of the climate sensor raises leaves both stored temperature and
\* humidity as they were, a raising light or potentiometer read leaves
\* ldr_value / trimmer_value as it was, and a stored value changes only in a
\* step whose reads of that sensor all returned.
C23_FailedReadKeepsValues ==
  [][/\ RaisedIn(ops', "dht22") => Climate(test_results') = Climate(test_results)
     /\ RaisedIn(ops', "ldr") => test_results'.ldr_value = test_results.ldr_value
     /\ RaisedIn(ops', "trimmer") =>
          test_results'.trimmer_value = test_results.trimmer_value
     /\ Climate(test_results') # Climate(test_results) =>
          /\ ReturnedIn(ops', "dht22", "measure")
          /\ ReturnedIn(ops', "dht22", "temperature")
          /\ ReturnedIn(ops', "dht22", "humidity")
     /\ test_results'.ldr_value # test_results.ldr_value =>
          ReturnedIn(ops', "ldr", "read_u16")
     /\ test_results'.trimmer_value # test_results.trimmer_value =>
          ReturnedIn(ops', "trimmer", "read_u16")]_vars


\* ---- outputs at rest ----
\* the step is a call of check_button, test_rgb_led or test_buzzer that
\* returns to its caller
FeedbackReturns ==
  /\ pc \in {"check_button", "test_rgb_led", "test_buzzer"}
  /\ interrupted' = interrupted
  /\ pc' \notin {"loop_except", "main_except"}

\* C24: when check_button, test_rgb_led or test_buzzer returns normally, the
\* buzzer's duty is zero if the buzzer is available and the three RGB duties
\* are zero if the RGB LED is available.
C24_OutputsBackToIdle ==
  [][FeedbackReturns =>
       /\ test_results'.buzzer_ok => buzzer_duty' = 0
       /\ test_results'.rgb_led_ok => \A c \in Channels : led_duty'[c] = 0]_vars


\* ---- the button ----
\* the step is a call of check_button that accepts a trigger: the page moves on
Accepts == pc = "check_button" /\ last_advance' # last_advance

\* C25: button_ok is false exactly as long as no trigger has been accepted
\* and never falls back; only check_button moves the page, by one page and
\* at most once per call, so at most once per loop iteration; an accepted
\* trigger is sampled more than 200 after the one accepted before it, and
\* every time last_button_time is recorded it moves on by more than 200.
C25_ButtonAccepts ==
  /\ [](test_results.button_ok <=> last_advance >= 0)
  /\ [][/\ test_results.button_ok => test_results'.button_ok
        /\ current_page' # current_page =>
             Accepts /\ current_page' = NextPage(current_page)
        /\ Accepts =>
             /\ current_page' = NextPage(current_page)
             /\ test_results'.button_ok
             /\ iter' = iter + 1
             /\ last_advance' = current_time'
             /\ last_advance >= 0 => last_advance' - last_advance > DEBOUNCE_DELAY
        /\ last_button_time' # last_button_time =>
             /\ Accepts
             /\ last_button_time' = last_advance'
             /\ last_button_time' - last_button_time > DEBOUNCE_DELAY]_vars

\* the second trigger has just been accepted and recorded, the button having
\* been low at every sample since the start, one of them ignored in between
C25_Witness ==
  /\ pc = "update_display"
  /\ held_low
  /\ iter >= 3
  /\ current_page = 2
  /\ test_results.button_ok
  /\ last_advance = current_time
  /\ last_button_time = current_time

=============================================================================
